---- MODULE Spec2Model ----
(***************************************************************************)
(* Model of translator.py: the command-line English/Spanish translator.    *)
(* One run of main() is modelled: endpoint selection by word count, the    *)
(* first translate_text attempt, the fallback attempt against the default  *)
(* endpoint and the final write to standard output.  The language detector *)
(* (langdetect.detect) and the translation service (LibreTranslator) are   *)
(* external: each call returns some value or raises, chosen freely.        *)
(*                                                                         *)
(* Python strings are modelled as sequences: a text is a sequence of       *)
(* characters, a language code a sequence of characters, a URL a sequence  *)
(* of chunks (the empty URL is the empty sequence).  None is a value that  *)
(* is different from every string.                                         *)
(***************************************************************************)
EXTENDS Integers, Sequences, FiniteSets, TLC

\* ------------------------------------------------------------------ bounds
MaxTextLen == 2
MaxThreshold == 1

\* ------------------------------------------------------------- data values
None == <<"<None>">>

EN == <<"e", "n">>
ES == <<"e", "s">>
SUPPORTED_LANGS == {EN, ES}

Alphabet == {"a", " ", "~"}

IsSpace(c) == c = " "

\* "~" stands for a non-ASCII letter such as n-tilde
IsAscii(c) == c # "~"

SeqsUpTo(S, n) == UNION {[1..k -> S] : k \in 0..n}

Texts == SeqsUpTo(Alphabet, MaxTextLen)

LOCALHOST == <<"http://localhost:5000">>
REMOTE == <<"https://translate.example">>
EMPTY_URL == <<>>

LocalUrls == {LOCALHOST, EMPTY_URL}
ApiUrls == {None, EMPTY_URL, LOCALHOST, REMOTE}
Thresholds == (0 - 1)..MaxThreshold
DisableEnvValues == {"0", "1"}

\* what langdetect.detect can return
DetectCodes == {EN, ES, <<"e", "n", "-", "u">>, <<"f", "r">>}
DetectOutcomes ==
    {[raises |-> TRUE, code |-> <<>>]} \cup {[raises |-> FALSE, code |-> c] : c \in DetectCodes}

\* what LibreTranslator.translate can return
ServiceReplies == {<<"x">>}
ServiceOutcomes ==
    {[raises |-> TRUE, reply |-> <<>>]} \cup {[raises |-> FALSE, reply |-> r] : r \in ServiceReplies}

DetectionError == <<"DetectionError">>
TranslationServiceError == <<"TranslationServiceError">>
UNREACHABLE == <<"unable to reach translation service.">>

\* Python truthiness of an Optional[str]
Truthy(v) == v # None /\ v # <<>>

\* ------------------------------------------------------------ pure helpers
MinOf(S) == CHOOSE x \in S : \A y \in S : x <= y
MaxOf(S) == CHOOSE x \in S : \A y \in S : x >= y

\* str.strip()
strip(s) ==
    LET idx == {i \in 1..Len(s) : ~IsSpace(s[i])}
    IN  IF idx = {} THEN <<>> ELSE SubSeq(s, MinOf(idx), MaxOf(idx))

\* length of the leading run of non-whitespace characters
RECURSIVE RunLen(_)
RunLen(s) == IF s = <<>> \/ IsSpace(Head(s)) THEN 0 ELSE 1 + RunLen(Tail(s))

\* str.split() with no separator
RECURSIVE split(_)
split(s) ==
    IF s = <<>> THEN <<>>
    ELSE IF IsSpace(Head(s)) THEN split(Tail(s))
    ELSE LET n == RunLen(s)
         IN  <<SubSeq(s, 1, n)>> \o split(SubSeq(s, n + 1, Len(s)))

NonEmpty(w) == w # <<>>

count_words(text) == Len(SelectSeq(split(strip(text)), NonEmpty))

startswith(s, p) == Len(s) >= Len(p) /\ SubSeq(s, 1, Len(p)) = p

AsciiCount(text) == Cardinality({i \in 1..Len(text) : IsAscii(text[i])})

\* ascii_ratio > 0.9, in integers
AsciiRatioHigh(text) ==
    LET d == IF Len(text) > 1 THEN Len(text) ELSE 1
    IN  10 * AsciiCount(text) > 9 * d

auto_detect_language_unmapped(text, code) ==
    IF startswith(code, EN) THEN EN
    ELSE IF startswith(code, ES) THEN ES
    ELSE code

auto_detect_language(text, code) ==
    IF startswith(code, EN) THEN EN
    ELSE IF startswith(code, ES) THEN ES
    ELSE IF AsciiRatioHigh(text) THEN EN ELSE ES

IsBlankEmptyOnly(text) == text = <<>>

\* not text.strip()
IsBlank(text) == strip(text) = <<>>

\* target = "es" if source == "en" else "en"
OppositeOf(src) == IF src = EN THEN ES ELSE EN

IsIdentityNever(src, tgt) == FALSE

\* source == target
IsIdentity(src, tgt) == src = tgt

\* the api_url the LibreTranslator client is built with (None: library default)
ClientUrl(api_url) == IF Truthy(api_url) THEN api_url ELSE None

\* One call of translate_text; det and svc are what the detector and the
\* service do if they are called.
translate_text(text, src, tgt, api_url, det, svc) ==
    LET quiet == [raised |-> FALSE, error |-> None, value |-> <<>>,
                  rsource |-> None, rtarget |-> None,
                  detects |-> <<>>, services |-> <<>>]
    IN
    IF IsBlank(text) THEN quiet
    ELSE
      LET detecting == src = None
          dcalls == IF detecting THEN <<text>> ELSE <<>>
      IN
      IF detecting /\ det.raises
      THEN [quiet EXCEPT !.raised = TRUE, !.error = DetectionError, !.detects = dcalls]
      ELSE
        LET s == IF detecting THEN auto_detect_language(text, det.code) ELSE src
            t == IF tgt = None THEN OppositeOf(s) ELSE tgt
        IN
        IF IsIdentity(s, t)
        THEN [quiet EXCEPT !.value = text, !.rsource = s, !.rtarget = t,
                           !.detects = dcalls]
        ELSE
          LET call == [text |-> text, source |-> s, target |-> t,
                       api_url |-> ClientUrl(api_url)]
          IN
          IF svc.raises
          THEN [quiet EXCEPT !.raised = TRUE, !.error = TranslationServiceError,
                             !.rsource = s, !.rtarget = t,
                             !.detects = dcalls, !.services = <<call>>]
          ELSE [quiet EXCEPT !.value = svc.reply, !.rsource = s, !.rtarget = t,
                             !.detects = dcalls, !.services = <<call>>]

\* DEFAULT_LOCAL_SHORT_ENABLED
LocalShortEnabled(envval) == envval \notin {"1", "true", "True"}

ChooseApiUrlStrict(explicit, enabled, no_local, nwords, threshold, local) ==
    IF explicit = None
    THEN IF (enabled /\ ~no_local) /\ nwords < threshold THEN local ELSE None
    ELSE explicit

ChooseApiUrlShortWins(explicit, enabled, no_local, nwords, threshold, local) ==
    IF (enabled /\ ~no_local) /\ nwords <= threshold THEN local ELSE explicit

\* lines 91-95 of main
ChooseApiUrl(explicit, enabled, no_local, nwords, threshold, local) ==
    IF explicit = None
    THEN IF (enabled /\ ~no_local) /\ nwords <= threshold THEN local ELSE None
    ELSE explicit

ShouldFallbackOther(chosen, local) == Truthy(chosen) /\ chosen # local

ShouldFallbackAnyUrl(chosen, local) == Truthy(chosen)

\* chosen_api_url and chosen_api_url == args.local_url
ShouldFallback(chosen, local) == Truthy(chosen) /\ chosen = local

\* ------------------------------------------------------------------- state
VARIABLES
    input_text, source, target, api_url, local_url, no_local_short,
    disable_env, short_threshold,      \* parsed arguments and environment
    chosen_api_url,                    \* endpoint picked for the first attempt
    pc,                                \* position in main
    calls,                             \* arguments of each translate_text call
    results,                           \* how each translate_text call ended
    detect_calls,                      \* texts handed to langdetect.detect
    svc_calls,                         \* requests handed to LibreTranslator
    output, stdout, stderr, exit_code

args == <<input_text, source, target, api_url, local_url, no_local_short,
          disable_env, short_threshold>>
vars == <<input_text, source, target, api_url, local_url, no_local_short,
          disable_env, short_threshold, chosen_api_url, pc, calls, results,
          detect_calls, svc_calls, output, stdout, stderr, exit_code>>

Init ==
    /\ input_text \in Texts
    /\ source \in {None} \cup SUPPORTED_LANGS
    /\ target \in {None} \cup SUPPORTED_LANGS
    /\ api_url \in ApiUrls
    /\ local_url \in LocalUrls
    /\ no_local_short \in BOOLEAN
    /\ disable_env \in DisableEnvValues
    /\ short_threshold \in Thresholds
    /\ chosen_api_url = None
    /\ pc = "select"
    /\ calls = <<>>
    /\ results = <<>>
    /\ detect_calls = <<>>
    /\ svc_calls = <<>>
    /\ output = None
    /\ stdout = <<>>
    /\ stderr = <<>>
    /\ exit_code = None

\* ----------------------------------------------------------------- actions
SelectEndpoint ==
    /\ pc = "select"
    /\ chosen_api_url' = ChooseApiUrl(api_url, LocalShortEnabled(disable_env),
                                      no_local_short, count_words(input_text),
                                      short_threshold, local_url)
    /\ pc' = "try_selected"
    /\ UNCHANGED <<args, calls, results, detect_calls, svc_calls, output,
                   stdout, stderr, exit_code>>

FailPartial(detail) ==
    /\ stderr' = Append(stderr, [prefix |-> "Translation failed: ", detail |-> detail])
    /\ stdout' = Append(stdout, <<>>)
    /\ exit_code' = 1
    /\ pc' = "exit"
    /\ UNCHANGED output

\* print(..., file=sys.stderr); return 1
Fail(detail) ==
    /\ stderr' = Append(stderr, [prefix |-> "Translation failed: ", detail |-> detail])
    /\ exit_code' = 1
    /\ pc' = "exit"
    /\ UNCHANGED <<output, stdout>>

FirstCall ==
    [text |-> input_text, source |-> source, target |-> target,
     api_url |-> chosen_api_url]

RetryCallSameUrl ==
    [text |-> input_text, source |-> source, target |-> target,
     api_url |-> chosen_api_url]

RetryCall ==
    [text |-> input_text, source |-> source, target |-> target,
     api_url |-> None]

Record(call, r) ==
    /\ calls' = Append(calls, call)
    /\ results' = Append(results, [raised |-> r.raised, error |-> r.error,
                                   value |-> r.value,
                                   rsource |-> r.rsource, rtarget |-> r.rtarget,
                                   detects |-> Len(r.detects),
                                   services |-> Len(r.services)])
    /\ detect_calls' = detect_calls \o r.detects
    /\ svc_calls' = svc_calls \o r.services

\* lines 97-106 and 117-119: the attempt with the selected endpoint
TrySelected ==
    /\ pc = "try_selected"
    /\ \E det \in DetectOutcomes, svc \in ServiceOutcomes :
         LET c == FirstCall
             r == translate_text(c.text, c.source, c.target, c.api_url, det, svc)
         IN  /\ Record(c, r)
             /\ IF ~r.raised
                THEN /\ output' = r.value
                     /\ pc' = "write"
                     /\ UNCHANGED <<stdout, stderr, exit_code>>
                ELSE IF ShouldFallback(chosen_api_url, local_url)
                THEN /\ pc' = "try_default"
                     /\ UNCHANGED <<output, stdout, stderr, exit_code>>
                ELSE Fail(UNREACHABLE)
    /\ UNCHANGED <<args, chosen_api_url>>

\* lines 107-116: the fallback attempt
TryDefault ==
    /\ pc = "try_default"
    /\ \E det \in DetectOutcomes, svc \in ServiceOutcomes :
         LET c == RetryCall
             r == translate_text(c.text, c.source, c.target, c.api_url, det, svc)
         IN  /\ Record(c, r)
             /\ IF ~r.raised
                THEN /\ output' = r.value
                     /\ pc' = "write"
                     /\ UNCHANGED <<stdout, stderr, exit_code>>
                ELSE Fail(r.error)
    /\ UNCHANGED <<args, chosen_api_url>>

\* lines 122-123
WriteOutput ==
    /\ pc = "write"
    /\ stdout' = Append(stdout, output)
    /\ exit_code' = 0
    /\ pc' = "exit"
    /\ UNCHANGED <<args, chosen_api_url, calls, results, detect_calls,
                   svc_calls, output, stderr>>

Next == SelectEndpoint \/ TrySelected \/ TryDefault \/ WriteOutput

Spec == Init /\ [][Next]_vars

\* main runs to completion once every external call has returned or raised
FairSpec == Spec /\ WF_vars(Next)

\* ------------------------------------------------------------ vocabulary
Done == pc = "exit"
SUCCESS == Done /\ exit_code = 0
FAIL == Done /\ exit_code = 1
FirstFailed == Len(results) >= 1 /\ results[1].raised
Retried == Len(calls) >= 2

\* a text with no character other than whitespace (the empty text included)
AllSpace(text) == \A i \in 1..Len(text) : IsSpace(text[i])

\* number of maximal runs of non-whitespace characters
WordStarts(text) ==
    Cardinality({i \in 1..Len(text) :
                   ~IsSpace(text[i]) /\ (i = 1 \/ IsSpace(text[i - 1]))})

LocalPreference == ~no_local_short /\ disable_env \notin {"1", "true", "True"}

\* ------------------------------------------------------------------ claims

\* C1 as stated: whenever the first attempt fails and the endpoint selected
\* for it equals args.local_url, whatever that URL is, main moves to
\* TRY_DEFAULT, makes exactly one retry with endpoint None, and reports
\* SUCCESS if the retry succeeds and FAIL if it fails.
C1_LocalFailureRetriesOnce_AnyUrl ==
    (FirstFailed /\ calls[1].api_url = local_url) =>
        /\ Len(calls) <= 2
        /\ Len(calls) = 1 => pc = "try_default"
        /\ Done => /\ Len(calls) = 2
                   /\ calls[2].api_url = None
                   /\ SUCCESS <=> ~results[2].raised
                   /\ FAIL <=> results[2].raised

\* C1 amended: whenever the first attempt fails and the endpoint selected for
\* it is a non-empty URL equal to args.local_url, main moves to TRY_DEFAULT,
\* makes exactly one retry with endpoint None, reports SUCCESS if the retry
\* succeeds and FAIL if it fails, and never makes a third attempt.
C1_LocalFailureRetriesOnce ==
    /\ Len(calls) <= 2
    /\ (FirstFailed /\ calls[1].api_url = local_url /\ local_url # <<>>) =>
        /\ Len(calls) = 1 => pc = "try_default"
        /\ Len(calls) = 2 => calls[2].api_url = None
        /\ pc \in {"write", "exit"} => Len(calls) = 2
        /\ Done => /\ SUCCESS <=> ~results[2].raised
                   /\ FAIL <=> results[2].raised

C1_Witness ==
    /\ FAIL
    /\ FirstFailed
    /\ calls[1].api_url = local_url
    /\ local_url = LOCALHOST
    /\ Len(calls) = 2
    /\ results[2].raised

\* C2: when the first attempt fails and the selected endpoint is not the local
\* endpoint, main goes directly to FAIL: no second translate_text call, and
\* the message is "Translation failed: unable to reach translation service.",
\* which is not the message printed when the retry fails (that one carries
\* the error of the retry).
C2_NonLocalFailureIsImmediate ==
    /\ (FirstFailed /\ calls[1].api_url # local_url) =>
        /\ FAIL
        /\ Len(calls) = 1
        /\ stderr = <<[prefix |-> "Translation failed: ", detail |-> UNREACHABLE]>>
        /\ stdout = <<>>
    /\ (Retried /\ FAIL) =>
        /\ stderr = <<[prefix |-> "Translation failed: ", detail |-> results[2].error]>>
        /\ results[2].error # UNREACHABLE

C2_Witness ==
    /\ FAIL
    /\ FirstFailed
    /\ calls[1].api_url = REMOTE
    /\ local_url = LOCALHOST
    /\ results[1].error = TranslationServiceError

\* C3: only a failure of the translation service at the local endpoint leads
\* to the fallback retry; a DetectionError raised inside translate_text ends
\* the invocation with no second attempt, whichever endpoint was selected.
C3_OnlyLocalServiceFailureRetries ==
    /\ Retried => /\ results[1].error = TranslationServiceError
                  /\ svc_calls[1].api_url = local_url
    /\ (Len(results) >= 1 /\ results[1].error = DetectionError) => ~Retried

C5_ExplicitUrlWins ==
    (pc # "select" /\ api_url # None) =>
        /\ chosen_api_url = api_url
        /\ Len(calls) >= 1 => calls[1].api_url = api_url
        /\ (Len(calls) >= 1 /\ results[1].services = 1 /\ api_url # <<>>)
              => svc_calls[1].api_url = api_url

C5_Witness ==
    /\ Len(calls) >= 1
    /\ api_url = REMOTE
    /\ local_url = LOCALHOST
    /\ LocalPreference
    /\ WordStarts(input_text) <= short_threshold
    /\ results[1].services = 1
    /\ svc_calls[1].api_url = REMOTE

\* C6: for a text of whitespace only (the empty text included), every
\* translate_text call returns the empty string without calling the detector
\* or the service, and main ends in SUCCESS with exit code 0 and empty
\* output, whichever endpoint was selected.
C6_BlankTextIsEmptySuccess ==
    AllSpace(input_text) =>
        /\ detect_calls = <<>>
        /\ svc_calls = <<>>
        /\ Len(calls) <= 1
        /\ \A i \in 1..Len(results) : ~results[i].raised /\ results[i].value = <<>>
        /\ pc # "try_default"
        /\ Done => SUCCESS /\ stdout = << <<>> >> /\ stderr = <<>>

C6_Witness ==
    /\ SUCCESS
    /\ AllSpace(input_text)
    /\ input_text # <<>>
    /\ source = None
    /\ chosen_api_url = LOCALHOST
    /\ stdout = << <<>> >>

\* C7: for a non-blank text, when the resolved source (given or detected)
\* equals the resolved target, translate_text returns the text unchanged and
\* makes no service call, for every endpoint.
C7_SameLanguageIsIdentity ==
    \A i \in 1..Len(results) :
        /\ (~AllSpace(calls[i].text) /\ results[i].rsource # None
              /\ results[i].rsource = results[i].rtarget) =>
              /\ ~results[i].raised
              /\ results[i].value = calls[i].text
              /\ results[i].services = 0
        /\ (~AllSpace(calls[i].text) /\ calls[i].source # None
              /\ calls[i].source = calls[i].target) =>
              /\ ~results[i].raised
              /\ results[i].value = calls[i].text
              /\ results[i].services = 0
              /\ results[i].rsource = calls[i].source
        /\ results[i].services = 1 => results[i].rsource # results[i].rtarget

C7_Witness ==
    /\ Len(results) = 1
    /\ ~AllSpace(input_text)
    /\ source = None
    /\ target = ES
    /\ results[1].rsource = ES
    /\ results[1].rtarget = ES
    /\ results[1].value = input_text
    /\ chosen_api_url = LOCALHOST
    /\ svc_calls = <<>>

\* C8: the exit code is 0 exactly when some attempt succeeded, and then the
\* result of that attempt has been written to standard output exactly once;
\* the exit code is 1 on a translation failure, and then nothing has been
\* written to standard output, only one message to standard error.
C8_ExitAndOutputDiscipline ==
    /\ ~Done => stdout = <<>> /\ exit_code = None
    /\ Done =>
        /\ exit_code \in {0, 1}
        /\ exit_code = 0 <=> \E i \in 1..Len(results) : ~results[i].raised
        /\ exit_code = 0 =>
              /\ ~results[Len(results)].raised
              /\ stdout = <<results[Len(results)].value>>
              /\ stderr = <<>>
        /\ exit_code = 1 =>
              /\ stdout = <<>>
              /\ Len(stderr) = 1
              /\ \A i \in 1..Len(results) : results[i].raised

C8_Witness ==
    /\ FAIL
    /\ Len(results) = 2
    /\ results[2].error = TranslationServiceError
    /\ stdout = <<>>
    /\ Len(stderr) = 1

\* C9: every call to the translation service carries a non-blank text, a
\* source and a target in {en, es}, and a source different from the target,
\* in the first attempt and in the fallback attempt, however the languages
\* were obtained.
C9_ServiceCallsWellFormed ==
    \A i \in 1..Len(svc_calls) :
        /\ ~AllSpace(svc_calls[i].text)
        /\ svc_calls[i].source \in SUPPORTED_LANGS
        /\ svc_calls[i].target \in SUPPORTED_LANGS
        /\ svc_calls[i].source # svc_calls[i].target

C9_Witness ==
    /\ Len(svc_calls) = 2
    /\ source = None
    /\ target = None
    /\ svc_calls[2].source = ES
    /\ svc_calls[2].target = EN

\* C10: every run of main reaches SUCCESS or FAIL after at most two
\* translate_text attempts and at most two service calls; a second attempt
\* happens only after a failed first one, with endpoint None and the text,
\* source and target of the first.
C10_BoundedTermination ==
    /\ <>(SUCCESS \/ FAIL)
    /\ [](/\ Len(calls) <= 2
          /\ Len(svc_calls) <= 2
          /\ Len(calls) = Len(results)
          /\ Retried => /\ results[1].raised
                        /\ calls[2].api_url = None
                        /\ calls[2].text = calls[1].text
                        /\ calls[2].source = calls[1].source
                        /\ calls[2].target = calls[1].target
                        /\ calls[1].text = input_text)

C10_Witness ==
    /\ Done
    /\ Len(calls) = 2
    /\ Len(svc_calls) = 2

====
